---------------------------- MODULE Spec2Model ----------------------------
(***************************************************************************)
(* Model of src/common/validation.cpp (namespace                           *)
(* mesos::internal::common::validation): the admission-time validators     *)
(* for IDs, secrets, environments, volumes, container infos and the gpus   *)
(* resource.                                                               *)
(*                                                                         *)
(* Strings that are data (IDs, variable names, secret bytes) are sequences *)
(* of 7-bit character codes.  An error message is a sequence of parts:     *)
(* a literal of the source ([lit |-> "..."]) or an embedded string         *)
(* ([str |-> <<codes>>]); '+' on strings is \o on parts.                   *)
(* Option<Error> is [isSome |-> FALSE] or [isSome |-> TRUE, message |-> m].*)
(***************************************************************************)
EXTENDS Integers, Sequences, FiniteSets, TLC

(***************************************************************************)
(* Bounds of the model.                                                    *)
(***************************************************************************)
\* Longest ID head drawn character by character; a run of 'a' may follow it.
MaxIdPrefix == 2

\* Largest number of elements of a repeated field (variables, volumes).
MaxRepeated == 3

\* Largest gpus quantity drawn, in thousandths.
MaxGpusThousandths == 2500

(***************************************************************************)
(* Platform constants.                                                     *)
(***************************************************************************)
\* <limits.h>, Linux.
NAME_MAX == 255

\* IEEE-754 binary64: bits of the significand of a double.
DBL_MANT_DIG == 53

(***************************************************************************)
(* Option<Error>, Error and string building.                               *)
(***************************************************************************)
None == [isSome |-> FALSE]

Error(message) == [isSome |-> TRUE, message |-> message]

Lit(s) == <<[lit |-> s]>>

Str(s) == <<[str |-> s]>>

RECURSIVE Digits(_)
Digits(n) == IF n < 10 THEN <<48 + n>> ELSE Append(Digits(n \div 10), 48 + (n % 10))

\* stringify(n) for a non-negative integer: its decimal digits.
stringify(n) == Str(Digits(n))

(***************************************************************************)
(* validateID                                                              *)
(***************************************************************************)
POSIX_PATH_SEPARATOR == 47

WINDOWS_PATH_SEPARATOR == 92

\* iscntrl in the "C" locale, for 7-bit codes.
iscntrl(c) == c \in 0..31 \/ c = 127

invalidCharacter(c) ==
    \/ iscntrl(c)
    \/ c = POSIX_PATH_SEPARATOR
    \/ c = WINDOWS_PATH_SEPARATOR

\* The check order of a faulty variant: characters before length.
validateID_CharsFirst(id) ==
    IF id = <<>> THEN Error(Lit("ID must not be empty"))
    ELSE IF \E i \in DOMAIN id : invalidCharacter(id[i])
      THEN Error(Lit("'") \o Str(id) \o Lit("' contains invalid characters"))
    ELSE IF Len(id) > NAME_MAX
      THEN Error(Lit("ID must not be greater than ") \o stringify(NAME_MAX)
                 \o Lit(" characters"))
    ELSE IF id = <<46>> \/ id = <<46, 46>>
      THEN Error(Lit("'") \o Str(id) \o Lit("' is disallowed"))
    ELSE None

\* A faulty variant: an ID of exactly NAME_MAX characters is refused.
validateID_OffByOne(id) ==
    IF id = <<>> THEN Error(Lit("ID must not be empty"))
    ELSE IF Len(id) >= NAME_MAX
      THEN Error(Lit("ID must not be greater than ") \o stringify(NAME_MAX)
                 \o Lit(" characters"))
    ELSE IF id = <<46>> \/ id = <<46, 46>>
      THEN Error(Lit("'") \o Str(id) \o Lit("' is disallowed"))
    ELSE IF \E i \in DOMAIN id : invalidCharacter(id[i])
      THEN Error(Lit("'") \o Str(id) \o Lit("' contains invalid characters"))
    ELSE None

validateID(id) ==
    IF id = <<>> THEN Error(Lit("ID must not be empty"))
    ELSE IF Len(id) > NAME_MAX
      THEN Error(Lit("ID must not be greater than ") \o stringify(NAME_MAX)
                 \o Lit(" characters"))
    ELSE IF id = <<46>> \/ id = <<46, 46>>
      THEN Error(Lit("'") \o Str(id) \o Lit("' is disallowed"))
    ELSE IF \E i \in DOMAIN id : invalidCharacter(id[i])
      THEN Error(Lit("'") \o Str(id) \o Lit("' contains invalid characters"))
    ELSE None

validateTaskID(taskId) == validateID(taskId.value)

validateExecutorID(executorId) == validateID(executorId.value)

validateSlaveID(slaveId) == validateID(slaveId.value)

validateFrameworkID(frameworkId) == validateID(frameworkId.value)

(***************************************************************************)
(* validateSecret                                                          *)
(***************************************************************************)
\* A faulty variant: REFERENCE does not reject a value payload.
validateSecret_NoExclusion(secret) ==
    CASE secret.type = "REFERENCE" ->
           IF ~secret.has_reference
             THEN Error(Lit("Secret of type REFERENCE must have the 'reference' field set"))
           ELSE None
      [] secret.type = "VALUE" ->
           IF ~secret.has_value
             THEN Error(Lit("Secret of type VALUE must have the 'value' field set"))
           ELSE IF secret.has_reference
             THEN Error(Lit("Secret of type VALUE must not have the 'reference' field set"))
           ELSE None
      [] secret.type = "UNKNOWN" -> None
      [] OTHER -> None

\* switch (secret.type()): a value that matches no case label leaves the
\* switch (there is no default label; UNREACHABLE() at line 132 follows the
\* break of the last case and is never executed), so line 135 returns None.
validateSecret(secret) ==
    CASE secret.type = "REFERENCE" ->
           IF ~secret.has_reference
             THEN Error(Lit("Secret of type REFERENCE must have the 'reference' field set"))
           ELSE IF secret.has_value
             THEN Error(Lit("Secret '") \o Str(secret.reference.name)
                        \o Lit("' of type REFERENCE must not have the 'value' field set"))
           ELSE None
      [] secret.type = "VALUE" ->
           IF ~secret.has_value
             THEN Error(Lit("Secret of type VALUE must have the 'value' field set"))
           ELSE IF secret.has_reference
             THEN Error(Lit("Secret of type VALUE must not have the 'reference' field set"))
           ELSE None
      [] secret.type = "UNKNOWN" -> None
      [] OTHER -> None

(***************************************************************************)
(* validateEnvironment: the body of the foreach loop for one variable.     *)
(* A result with isSome is returned by validateEnvironment at once; None   *)
(* means the switch was left and the loop goes on to the next variable.    *)
(***************************************************************************)
hasNullByte(data) == \E i \in DOMAIN data : data[i] = 0

\* A faulty variant: for SECRET the value-set rule is tested before the
\* secret-absent rule, and the null-byte rule before validateSecret.
environmentVariable_Reordered(variable) ==
    CASE variable.type = "SECRET" ->
           IF variable.has_value
             THEN Error(Lit("Environment variable '") \o Str(variable.name)
                        \o Lit("' of type 'SECRET' must not have a value set"))
           ELSE IF ~variable.has_secret
             THEN Error(Lit("Environment variable '") \o Str(variable.name)
                        \o Lit("' of type 'SECRET' must have a secret set"))
           ELSE IF hasNullByte(variable.secret.value.data)
             THEN Error(Lit("Environment variable '") \o Str(variable.name)
                        \o Lit("' specifies a secret containing null bytes, which is not allowed in the environment"))
           ELSE LET error == validateSecret(variable.secret) IN
             IF error.isSome
               THEN Error(Lit("Environment variable '") \o Str(variable.name)
                          \o Lit("' specifies an invalid secret: ") \o error.message)
             ELSE None
      [] variable.type = "VALUE" ->
           IF ~variable.has_value
             THEN Error(Lit("Environment variable '") \o Str(variable.name)
                        \o Lit("' of type 'VALUE' must have a value set"))
           ELSE IF variable.has_secret
             THEN Error(Lit("Environment variable '") \o Str(variable.name)
                        \o Lit("' of type 'VALUE' must not have a secret set"))
           ELSE None
      [] variable.type = "UNKNOWN" ->
           Error(Lit("Environment variable of type 'UNKNOWN' is not allowed"))
      [] OTHER -> None

\* switch (variable.type()): as in validateSecret, a value that matches no
\* case label leaves the switch (UNREACHABLE() at line 193 follows the
\* return of the last case and is never executed) and the loop goes on.
environmentVariable(variable) ==
    CASE variable.type = "SECRET" ->
           IF ~variable.has_secret
             THEN Error(Lit("Environment variable '") \o Str(variable.name)
                        \o Lit("' of type 'SECRET' must have a secret set"))
           ELSE IF variable.has_value
             THEN Error(Lit("Environment variable '") \o Str(variable.name)
                        \o Lit("' of type 'SECRET' must not have a value set"))
           ELSE LET error == validateSecret(variable.secret) IN
             IF error.isSome
               THEN Error(Lit("Environment variable '") \o Str(variable.name)
                          \o Lit("' specifies an invalid secret: ") \o error.message)
             ELSE IF hasNullByte(variable.secret.value.data)
               THEN Error(Lit("Environment variable '") \o Str(variable.name)
                          \o Lit("' specifies a secret containing null bytes, which is not allowed in the environment"))
             ELSE None
      [] variable.type = "VALUE" ->
           IF ~variable.has_value
             THEN Error(Lit("Environment variable '") \o Str(variable.name)
                        \o Lit("' of type 'VALUE' must have a value set"))
           ELSE IF variable.has_secret
             THEN Error(Lit("Environment variable '") \o Str(variable.name)
                        \o Lit("' of type 'VALUE' must not have a secret set"))
           ELSE None
      [] variable.type = "UNKNOWN" ->
           Error(Lit("Environment variable of type 'UNKNOWN' is not allowed"))
      [] OTHER -> None

(***************************************************************************)
(* validateVolume                                                          *)
(***************************************************************************)
\* A faulty variant: at most one of the three fields, instead of exactly one.
validateVolume_AtMostOne(volume) ==
    LET count == (IF volume.has_host_path THEN 1 ELSE 0)
               + (IF volume.has_image THEN 1 ELSE 0)
               + (IF volume.has_source THEN 1 ELSE 0)
    IN  IF count > 1
          THEN Error(Lit("Only one of them should be set: 'host_path', 'image' and 'source'"))
        ELSE IF volume.has_source
          THEN CASE volume.source.type = "DOCKER_VOLUME" ->
                      IF ~volume.source.has_docker_volume
                        THEN Error(Lit("'source.docker_volume' is not set for DOCKER_VOLUME volume"))
                      ELSE None
                 [] volume.source.type = "HOST_PATH" ->
                      IF ~volume.source.has_host_path
                        THEN Error(Lit("'source.host_path' is not set for HOST_PATH volume"))
                      ELSE None
                 [] volume.source.type = "SANDBOX_PATH" ->
                      IF ~volume.source.has_sandbox_path
                        THEN Error(Lit("'source.sandbox_path' is not set for SANDBOX_PATH volume"))
                      ELSE None
                 [] volume.source.type = "SECRET" ->
                      IF ~volume.source.has_secret
                        THEN Error(Lit("'source.secret' is not set for SECRET volume"))
                      ELSE None
                 [] OTHER -> Error(Lit("'source.type' is unknown"))
        ELSE None

\* A faulty variant: the two path kinds test each other's payload.
validateVolume_SwappedPaths(volume) ==
    LET count == (IF volume.has_host_path THEN 1 ELSE 0)
               + (IF volume.has_image THEN 1 ELSE 0)
               + (IF volume.has_source THEN 1 ELSE 0)
    IN  IF count # 1
          THEN Error(Lit("Only one of them should be set: 'host_path', 'image' and 'source'"))
        ELSE IF volume.has_source
          THEN CASE volume.source.type = "DOCKER_VOLUME" ->
                      IF ~volume.source.has_docker_volume
                        THEN Error(Lit("'source.docker_volume' is not set for DOCKER_VOLUME volume"))
                      ELSE None
                 [] volume.source.type = "HOST_PATH" ->
                      IF ~volume.source.has_sandbox_path
                        THEN Error(Lit("'source.host_path' is not set for HOST_PATH volume"))
                      ELSE None
                 [] volume.source.type = "SANDBOX_PATH" ->
                      IF ~volume.source.has_host_path
                        THEN Error(Lit("'source.sandbox_path' is not set for SANDBOX_PATH volume"))
                      ELSE None
                 [] volume.source.type = "SECRET" ->
                      IF ~volume.source.has_secret
                        THEN Error(Lit("'source.secret' is not set for SECRET volume"))
                      ELSE None
                 [] OTHER -> Error(Lit("'source.type' is unknown"))
        ELSE None

validateVolume(volume) ==
    LET count == (IF volume.has_host_path THEN 1 ELSE 0)
               + (IF volume.has_image THEN 1 ELSE 0)
               + (IF volume.has_source THEN 1 ELSE 0)
    IN  IF count # 1
          THEN Error(Lit("Only one of them should be set: 'host_path', 'image' and 'source'"))
        ELSE IF volume.has_source
          THEN CASE volume.source.type = "DOCKER_VOLUME" ->
                      IF ~volume.source.has_docker_volume
                        THEN Error(Lit("'source.docker_volume' is not set for DOCKER_VOLUME volume"))
                      ELSE None
                 [] volume.source.type = "HOST_PATH" ->
                      IF ~volume.source.has_host_path
                        THEN Error(Lit("'source.host_path' is not set for HOST_PATH volume"))
                      ELSE None
                 [] volume.source.type = "SANDBOX_PATH" ->
                      IF ~volume.source.has_sandbox_path
                        THEN Error(Lit("'source.sandbox_path' is not set for SANDBOX_PATH volume"))
                      ELSE None
                 [] volume.source.type = "SECRET" ->
                      IF ~volume.source.has_secret
                        THEN Error(Lit("'source.secret' is not set for SECRET volume"))
                      ELSE None
                 [] OTHER -> Error(Lit("'source.type' is unknown"))
        ELSE None

(***************************************************************************)
(* validateContainerInfo: the body of the foreach loop for one volume.     *)
(***************************************************************************)
\* A faulty variant: the volume's error is returned without the prefix.
containerInfoVolume_Unwrapped(volume) == validateVolume(volume)

containerInfoVolume(volume) ==
    LET error == validateVolume(volume) IN
    IF error.isSome THEN Error(Lit("Invalid volume: ") \o error.message)
    ELSE None

(***************************************************************************)
(* IEEE-754 binary64 arithmetic, as far as validateGpus uses it.  A        *)
(* natural number of any size is its sequence of bits, most significant    *)
(* first (<<>> is 0).  A double is [m |-> bits, e |-> exponent], of value  *)
(* m * 2^e, with m of DBL_MANT_DIG bits and leading bit 1, or m = <<>> for *)
(* 0.0.  Results are rounded to nearest, ties to even.  The quantities     *)
(* drawn are far from overflow and from the subnormal range.               *)
(***************************************************************************)
\* The W low bits of the natural number n.
BitsOf(n, W) == [i \in 1..W |-> (n \div 2^(W - i)) % 2]

BitsToNat(b) ==
    LET RECURSIVE Sum(_)
        Sum(i) == IF i = 0 THEN 0 ELSE 2 * Sum(i - 1) + b[i]
    IN  Sum(Len(b))

StripZeros(b) ==
    IF \A i \in DOMAIN b : b[i] = 0 THEN <<>>
    ELSE LET first == CHOOSE i \in DOMAIN b :
                         b[i] = 1 /\ \A j \in 1..(i - 1) : b[j] = 0
         IN  SubSeq(b, first, Len(b))

Zeros(n) == [i \in 1..n |-> 0]

\* b + 1.
IncBits(b) ==
    IF \A i \in DOMAIN b : b[i] = 1 THEN <<1>> \o Zeros(Len(b))
    ELSE LET last == CHOOSE i \in DOMAIN b :
                        b[i] = 0 /\ \A j \in (i + 1)..Len(b) : b[j] = 1
         IN  [i \in 1..Len(b) |-> IF i < last THEN b[i]
                                  ELSE IF i = last THEN 1 ELSE 0]

\* Long arithmetic works on limbs of 12 bits (0..4095), most significant
\* first, so that every intermediate value stays a machine integer.
LimbsOfBits(b) ==
    LET pad == Zeros((12 - (Len(b) % 12)) % 12) \o b
    IN  [i \in 1..(Len(pad) \div 12) |->
            BitsToNat(SubSeq(pad, 12 * (i - 1) + 1, 12 * i))]

BitsOfLimbs(l) ==
    [i \in 1..(12 * Len(l)) |->
        (l[((i - 1) \div 12) + 1] \div 2^(11 - ((i - 1) % 12))) % 2]

\* Long division of the limbs l by d <= 4096, from limb i on, with
\* remainder r and quotient limbs q so far.
RECURSIVE DivLimbs(_, _, _, _, _)
DivLimbs(l, d, i, r, q) ==
    IF i > Len(l) THEN [q |-> q, r |-> r]
    ELSE LET v == 4096 * r + l[i]
         IN  DivLimbs(l, d, i + 1, v % d, Append(q, v \div d))

\* Product of the limbs l and n <= 4096, from limb i down, with the carry
\* and the low limbs of the product so far.
RECURSIVE MulLimbs(_, _, _, _, _)
MulLimbs(l, n, i, carry, low) ==
    IF i = 0 THEN <<carry>> \o low
    ELSE LET v == l[i] * n + carry
         IN  MulLimbs(l, n, i - 1, v \div 4096, <<v % 4096>> \o low)

\* The double nearest to bits * 2^e (+ a positive fraction of 2^e, if sticky).
RoundToDouble(bits, e, sticky) ==
    LET b == StripZeros(bits)
        n == Len(b)
    IN  IF b = <<>> THEN [m |-> <<>>, e |-> 0]
        ELSE IF n <= DBL_MANT_DIG
          THEN [m |-> b \o Zeros(DBL_MANT_DIG - n), e |-> e - (DBL_MANT_DIG - n)]
        ELSE LET keep == SubSeq(b, 1, DBL_MANT_DIG)
                 half == b[DBL_MANT_DIG + 1] = 1
                 rest == sticky \/ \E i \in (DBL_MANT_DIG + 2)..n : b[i] = 1
                 up   == half /\ (rest \/ keep[DBL_MANT_DIG] = 1)
                 sum  == IF up THEN IncBits(keep) ELSE keep
                 e1   == e + (n - DBL_MANT_DIG)
             IN  IF Len(sum) > DBL_MANT_DIG
                   THEN [m |-> SubSeq(sum, 1, DBL_MANT_DIG), e |-> e1 + 1]
                 ELSE [m |-> sum, e |-> e1]

\* static_cast<double>(k) / n for naturals k, n <= 4095: the quotient of
\* k * 2^72 by n has more than DBL_MANT_DIG + 2 bits; the remainder is the
\* sticky bit.
DoubleOfQuotient(k, n) ==
    LET d == DivLimbs(<<k>> \o Zeros(6), n, 1, 0, <<>>)
    IN  RoundToDouble(BitsOfLimbs(d.q), 0 - 72, d.r # 0)

\* x * n for a double x and a natural n <= 4096 that a double holds exactly.
DoubleTimes(x, n) ==
    LET l == LimbsOfBits(x.m)
    IN  RoundToDouble(BitsOfLimbs(MulLimbs(l, n, Len(l), 0, <<>>)), x.e, FALSE)

\* static_cast<long long>(x) for a double x >= 0: truncation.
TruncToInteger(x) ==
    IF x.e >= 0 THEN BitsToNat(x.m \o Zeros(x.e))
    ELSE IF Len(x.m) + x.e <= 0 THEN 0
    ELSE BitsToNat(SubSeq(x.m, 1, Len(x.m) + x.e))

(***************************************************************************)
(* validateGpus                                                            *)
(***************************************************************************)
\* Resources(resources).gpus(): the gpus scalar of the resource list, a
\* quantity of 3 digits of precision held as a double; None if absent.
ResourcesGpus(resources) ==
    IF resources.has_gpus
      THEN [isSome |-> TRUE, value |-> DoubleOfQuotient(resources.thousandths, 1000)]
    ELSE [isSome |-> FALSE]

getOrElse(option, default) == IF option.isSome THEN option.value ELSE default

validateGpus(resources) ==
    LET gpus == getOrElse(ResourcesGpus(resources), [m |-> <<>>, e |-> 0])
    IN  IF TruncToInteger(DoubleTimes(gpus, 1000)) % 1000 # 0
          THEN Error(Lit("The 'gpus' resource must be an unsigned integer"))
        ELSE None

(***************************************************************************)
(* The inputs.  An enum field holds one of its listed values or, as a      *)
(* build whose generated header lists more values than this file's         *)
(* switches can produce, a value that no case label names ("Type(99)").    *)
(***************************************************************************)
IdChars == {31, 32, 46, 47, 92, 97, 127}

\* IDs: a short head of any characters, then no 'a' or about NAME_MAX of them.
IdInputs ==
    {head \o [i \in 1..n |-> 97] :
        head \in UNION {[1..len -> IdChars] : len \in 0..MaxIdPrefix},
        n \in {0} \cup (NAME_MAX - 2)..(NAME_MAX + 1)}

SecretTypes == {"UNKNOWN", "REFERENCE", "VALUE"}

ReferencePayloads ==
    {[has |-> FALSE, msg |-> [name |-> <<>>]],
     [has |-> TRUE,  msg |-> [name |-> <<114>>]]}

ValuePayloads ==
    {[has |-> FALSE, msg |-> [data |-> <<>>]]}
    \cup {[has |-> TRUE, msg |-> [data |-> d]] : d \in {<<>>, <<120>>, <<120, 0>>}}

SecretInputs ==
    {[type |-> t, has_reference |-> r.has, reference |-> r.msg,
      has_value |-> v.has, value |-> v.msg] :
        t \in SecretTypes \cup {"Type(99)"},
        r \in ReferencePayloads, v \in ValuePayloads}

\* Secret::default_instance(), which variable.secret() is when no secret is set.
DefaultSecret ==
    [type |-> "UNKNOWN", has_reference |-> FALSE, reference |-> [name |-> <<>>],
     has_value |-> FALSE, value |-> [data |-> <<>>]]

VariableTypes == {"UNKNOWN", "VALUE", "SECRET"}

VariableInputs ==
    {[name |-> n, type |-> t, has_value |-> hv, has_secret |-> s.has,
      secret |-> s.msg] :
        n \in {<<65>>, <<66>>},
        t \in VariableTypes \cup {"Type(99)"},
        hv \in BOOLEAN,
        s \in {[has |-> FALSE, msg |-> DefaultSecret]}
              \cup {[has |-> TRUE, msg |-> x] : x \in SecretInputs}}

SourceTypes == {"UNKNOWN", "DOCKER_VOLUME", "HOST_PATH", "SANDBOX_PATH", "SECRET"}

SourceInputs ==
    {[type |-> t, has_docker_volume |-> d, has_host_path |-> h,
      has_sandbox_path |-> b, has_secret |-> x] :
        t \in SourceTypes \cup {"Type(99)"},
        d \in BOOLEAN, h \in BOOLEAN, b \in BOOLEAN, x \in BOOLEAN}

DefaultSource ==
    [type |-> "UNKNOWN", has_docker_volume |-> FALSE, has_host_path |-> FALSE,
     has_sandbox_path |-> FALSE, has_secret |-> FALSE]

VolumeInputs ==
    {[has_host_path |-> h, has_image |-> i, has_source |-> s.has,
      source |-> s.msg] :
        h \in BOOLEAN, i \in BOOLEAN,
        s \in {[has |-> FALSE, msg |-> DefaultSource]}
              \cup {[has |-> TRUE, msg |-> x] : x \in SourceInputs}}

\* Resource lists, as far as validateGpus reads them: the gpus scalar, if any.
ResourceInputs ==
    {[has_gpus |-> FALSE, thousandths |-> 0]}
    \cup {[has_gpus |-> TRUE, thousandths |-> k] : k \in 0..MaxGpusThousandths}

(***************************************************************************)
(* The state: one call of one validator.                                   *)
(*   fn    the validator called                                            *)
(*   pc    "call": entered; "loop": at the head of a foreach; "done"       *)
(*   arg   the argument; for a validator of a repeated field, the element  *)
(*         the foreach examines (elements are drawn as the loop reads them)*)
(*   size  the number of elements of the repeated field                    *)
(*   idx   the number of elements read so far                              *)
(*   seen  for each element read so far, what it is: see VariableClass and *)
(*         VolumeClass                                                     *)
(*   ret   the Option<Error> returned (None until pc = "done")             *)
(***************************************************************************)
VARIABLES fn, pc, arg, size, idx, seen, ret

vars == <<fn, pc, arg, size, idx, seen, ret>>

IdWrappers ==
    {"validateTaskID", "validateExecutorID", "validateSlaveID", "validateFrameworkID"}

EnvironmentFns == {"validateEnvironment", "validateCommandInfo"}

Init ==
    /\ ret = None
    /\ idx = 0
    /\ seen = <<>>
    /\ \/ fn = "validateID" /\ pc = "call" /\ arg \in IdInputs /\ size = 0
       \/ fn \in IdWrappers /\ pc = "call" /\ size = 0
            /\ arg \in {[value |-> id] : id \in IdInputs}
       \/ fn = "validateSecret" /\ pc = "call" /\ arg \in SecretInputs /\ size = 0
       \/ fn = "validateVolume" /\ pc = "call" /\ arg \in VolumeInputs /\ size = 0
       \/ fn = "validateGpus" /\ pc = "call" /\ arg \in ResourceInputs /\ size = 0
       \/ fn = "validateEnvironment" /\ pc = "loop" /\ arg = <<>>
            /\ size \in 0..MaxRepeated
       \/ fn = "validateCommandInfo" /\ pc = "call" /\ arg = <<>>
            /\ size \in 0..MaxRepeated
       \/ fn = "validateContainerInfo" /\ pc = "loop" /\ arg = <<>>
            /\ size \in 0..MaxRepeated

Return(result) ==
    /\ ret' = result
    /\ pc' = "done"
    /\ UNCHANGED <<fn, arg, size, idx, seen>>

ValidateID ==
    pc = "call" /\ fn = "validateID" /\ Return(validateID(arg))

ValidateTaskID ==
    pc = "call" /\ fn = "validateTaskID" /\ Return(validateTaskID(arg))

ValidateExecutorID ==
    pc = "call" /\ fn = "validateExecutorID" /\ Return(validateExecutorID(arg))

ValidateSlaveID ==
    pc = "call" /\ fn = "validateSlaveID" /\ Return(validateSlaveID(arg))

ValidateFrameworkID ==
    pc = "call" /\ fn = "validateFrameworkID" /\ Return(validateFrameworkID(arg))

ValidateSecret ==
    pc = "call" /\ fn = "validateSecret" /\ Return(validateSecret(arg))

ValidateVolume ==
    pc = "call" /\ fn = "validateVolume" /\ Return(validateVolume(arg))

ValidateGpus ==
    pc = "call" /\ fn = "validateGpus" /\ Return(validateGpus(arg))

\* return validateEnvironment(command.environment()): the call enters the
\* loop below, whose result is returned unchanged.
ValidateCommandInfo ==
    /\ pc = "call" /\ fn = "validateCommandInfo"
    /\ pc' = "loop"
    /\ UNCHANGED <<fn, arg, size, idx, seen, ret>>

\* What a variable is, by the rules of the Environment message alone.
WellFormedVariable(v) ==
    \/ v.type = "VALUE" /\ v.has_value /\ ~v.has_secret
    \/ /\ v.type = "SECRET" /\ v.has_secret /\ ~v.has_value
       /\ ~validateSecret(v.secret).isSome
       /\ ~hasNullByte(v.secret.value.data)

VariableClass(v) ==
    IF v.type \notin VariableTypes THEN "unlisted type"
    ELSE IF WellFormedVariable(v) THEN "well-formed"
    ELSE "ill-formed"

\* One iteration of the foreach of validateEnvironment.
EnvironmentVariable ==
    /\ pc = "loop" /\ fn \in EnvironmentFns /\ idx < size
    /\ \E variable \in VariableInputs :
         LET error == environmentVariable(variable) IN
         /\ arg' = variable
         /\ idx' = idx + 1
         /\ seen' = Append(seen, VariableClass(variable))
         /\ IF error.isSome
              THEN ret' = error /\ pc' = "done"
              ELSE ret' = ret /\ pc' = "loop"
    /\ UNCHANGED <<fn, size>>

\* The foreach of validateEnvironment is over: return None().
EnvironmentEnd ==
    /\ pc = "loop" /\ fn \in EnvironmentFns /\ idx = size
    /\ Return(None)

VolumeClass(v) ==
    IF validateVolume(v).isSome THEN "refused" ELSE "accepted"

\* One iteration of the foreach of validateContainerInfo.
ContainerInfoVolume ==
    /\ pc = "loop" /\ fn = "validateContainerInfo" /\ idx < size
    /\ \E volume \in VolumeInputs :
         LET error == containerInfoVolume(volume) IN
         /\ arg' = volume
         /\ idx' = idx + 1
         /\ seen' = Append(seen, VolumeClass(volume))
         /\ IF error.isSome
              THEN ret' = error /\ pc' = "done"
              ELSE ret' = ret /\ pc' = "loop"
    /\ UNCHANGED <<fn, size>>

\* The foreach of validateContainerInfo is over: return None().
ContainerInfoEnd ==
    /\ pc = "loop" /\ fn = "validateContainerInfo" /\ idx = size
    /\ Return(None)

Next ==
    \/ ValidateID
    \/ ValidateTaskID
    \/ ValidateExecutorID
    \/ ValidateSlaveID
    \/ ValidateFrameworkID
    \/ ValidateSecret
    \/ ValidateVolume
    \/ ValidateGpus
    \/ ValidateCommandInfo
    \/ EnvironmentVariable
    \/ EnvironmentEnd
    \/ ContainerInfoVolume
    \/ ContainerInfoEnd

Spec == Init /\ [][Next]_vars

(***************************************************************************)
(*                              Properties                                 *)
(***************************************************************************)
Done(f) == pc = "done" /\ fn = f

IdFns == {"validateID"} \cup IdWrappers

\* The ID a call of an ID validator is about.
IdOf == IF fn = "validateID" THEN arg ELSE arg.value

ControlCharacter(c) == c < 32 \/ c = 127

InvalidIdentifier(id) ==
    \/ Len(id) = 0
    \/ Len(id) > NAME_MAX
    \/ id = <<46>>
    \/ id = <<46, 46>>
    \/ \E i \in 1..Len(id) : id[i] = 47 \/ id[i] = 92 \/ ControlCharacter(id[i])

\* C1: validateID fails exactly on the IDs that are empty, longer than
\* NAME_MAX, "." or "..", or hold a '/', a '\' or a control character, and
\* succeeds on every other ID; validateTaskID, validateExecutorID,
\* validateSlaveID and validateFrameworkID return what validateID returns on
\* the wrapped value.
C1_IdentifierRule ==
    (pc = "done" /\ fn \in IdFns) =>
        /\ ret.isSome <=> InvalidIdentifier(IdOf)
        /\ fn \in IdWrappers => ret = validateID(arg.value)

\* C1 witness: a wrapped ID of exactly NAME_MAX plain characters is accepted.
C1_Witness ==
    /\ Done("validateSlaveID")
    /\ Len(arg.value) = NAME_MAX
    /\ ~InvalidIdentifier(arg.value)
    /\ ret = None

WellFormedSecret(secret) ==
    \/ secret.type = "REFERENCE" /\ secret.has_reference /\ ~secret.has_value
    \/ secret.type = "VALUE" /\ secret.has_value /\ ~secret.has_reference
    \/ secret.type = "UNKNOWN"

\* C2: on a Secret of type REFERENCE, VALUE or UNKNOWN, validateSecret
\* succeeds exactly when the type is REFERENCE with the reference set and the
\* value not set, or VALUE with the value set and the reference not set, or
\* UNKNOWN.
C2_SecretRule ==
    (Done("validateSecret") /\ arg.type \in SecretTypes) =>
        (ret = None <=> WellFormedSecret(arg))

\* C2 witness: a REFERENCE secret with both payloads set is refused.
C2_Witness ==
    /\ Done("validateSecret")
    /\ arg.type = "REFERENCE" /\ arg.has_reference /\ arg.has_value
    /\ ret.isSome

\* C3: validateEnvironment (and validateCommandInfo, which returns its
\* result) succeeds if and only if every variable is well-formed: VALUE with
\* a value and no secret, or SECRET with a secret that validateSecret accepts
\* and whose value data holds no 0x00 byte, and no value.
C3_SucceedsIffAllWellFormed ==
    (pc = "done" /\ fn \in EnvironmentFns) =>
        (ret = None <=>
            idx = size /\ \A i \in DOMAIN seen : seen[i] = "well-formed")

\* C3, for environments whose variables all have a listed type (VALUE,
\* SECRET or UNKNOWN): the same equivalence.
C3_OnListedTypes ==
    (/\ pc = "done" /\ fn \in EnvironmentFns
     /\ \A i \in DOMAIN seen : seen[i] # "unlisted type") =>
        (ret = None <=>
            idx = size /\ \A i \in DOMAIN seen : seen[i] = "well-formed")

Populated(volume) ==
    {f \in {"host_path", "image", "source"} :
        \/ f = "host_path" /\ volume.has_host_path
        \/ f = "image" /\ volume.has_image
        \/ f = "source" /\ volume.has_source}

MatchingPayload(source) ==
    \/ source.type = "DOCKER_VOLUME" /\ source.has_docker_volume
    \/ source.type = "HOST_PATH" /\ source.has_host_path
    \/ source.type = "SANDBOX_PATH" /\ source.has_sandbox_path
    \/ source.type = "SECRET" /\ source.has_secret

\* C4: validateVolume fails when zero, two or three of host_path, image and
\* source are set; succeeds when only host_path or only image is set; and
\* when only source is set, fails if (and only if) the source type is not
\* one of DOCKER_VOLUME, HOST_PATH, SANDBOX_PATH, SECRET or the payload of
\* that type is not set.
C4_VolumeRule ==
    Done("validateVolume") =>
        /\ Cardinality(Populated(arg)) # 1 => ret.isSome
        /\ Populated(arg) \in {{"host_path"}, {"image"}} => ret = None
        /\ Populated(arg) = {"source"} =>
             (ret.isSome <=> ~MatchingPayload(arg.source))

\* C4 witness: a source of type DOCKER_VOLUME with only sandbox_path set is
\* refused.
C4_Witness ==
    /\ Done("validateVolume")
    /\ Populated(arg) = {"source"}
    /\ arg.source.type = "DOCKER_VOLUME"
    /\ ~arg.source.has_docker_volume /\ arg.source.has_sandbox_path
    /\ ~arg.source.has_host_path /\ ~arg.source.has_secret
    /\ ret.isSome

PayloadsSet(source) ==
    {t \in {"DOCKER_VOLUME", "HOST_PATH", "SANDBOX_PATH", "SECRET"} :
        \/ t = "DOCKER_VOLUME" /\ source.has_docker_volume
        \/ t = "HOST_PATH" /\ source.has_host_path
        \/ t = "SANDBOX_PATH" /\ source.has_sandbox_path
        \/ t = "SECRET" /\ source.has_secret}

\* C5, as claimed: a volume that validateVolume accepts with its source set
\* has exactly the payload of the source type set, and no other payload.
C5_ExactlyMatchingPayload ==
    (Done("validateVolume") /\ ret = None /\ arg.has_source) =>
        PayloadsSet(arg.source) = {arg.source.type}

\* C5, amended: a volume that validateVolume accepts with its source set has
\* a source type among DOCKER_VOLUME, HOST_PATH, SANDBOX_PATH and SECRET and
\* the payload of that type set (other payloads may be set too).
C5_MatchingPayloadSet ==
    (Done("validateVolume") /\ ret = None /\ arg.has_source) =>
        arg.source.type \in PayloadsSet(arg.source)

\* C5 witness: an accepted DOCKER_VOLUME source with docker_volume and
\* sandbox_path both set.
C5_Witness ==
    /\ Done("validateVolume") /\ ret = None /\ arg.has_source
    /\ arg.source.type = "DOCKER_VOLUME"
    /\ PayloadsSet(arg.source) = {"DOCKER_VOLUME", "SANDBOX_PATH"}

\* C6: validateContainerInfo succeeds if and only if validateVolume accepts
\* every volume; otherwise it returns, at the first volume validateVolume
\* refuses, that volume's error behind "Invalid volume: ", and reads no
\* further volume.
C6_ContainerInfoFirstFailure ==
    (fn = "validateContainerInfo") =>
        /\ pc = "loop" =>
             ret = None /\ \A i \in DOMAIN seen : seen[i] = "accepted"
        /\ (pc = "done" /\ ret = None) =>
             idx = size /\ \A i \in DOMAIN seen : seen[i] = "accepted"
        /\ (pc = "done" /\ ret.isSome) =>
             /\ idx = Len(seen) /\ seen[idx] = "refused"
             /\ \A i \in 1..(idx - 1) : seen[i] = "accepted"
             /\ ret = Error(Lit("Invalid volume: ") \o validateVolume(arg).message)

\* C6 witness: [an accepted volume, the empty volume] is refused because of
\* the second volume.
C6_Witness ==
    /\ Done("validateContainerInfo")
    /\ seen = <<"accepted", "refused">>
    /\ Populated(arg) = {}
    /\ ret = Error(Lit("Invalid volume: ")
                   \o Lit("Only one of them should be set: 'host_path', 'image' and 'source'"))

\* C7: validateGpus succeeds if and only if the gpus quantity in
\* thousandths (0 when there is no gpus resource) is a multiple of 1000.
C7_GpusWholeNumber ==
    Done("validateGpus") =>
        (ret = None <=>
            (IF arg.has_gpus THEN arg.thousandths ELSE 0) % 1000 = 0)

\* C7, the cases the specification names: 2.000 and no gpus succeed, 2.5 and
\* 1.999 fail.
C7_NamedCases ==
    Done("validateGpus") =>
        /\ (~arg.has_gpus \/ arg.thousandths \in {0, 2000}) => ret = None
        /\ (arg.has_gpus /\ arg.thousandths \in {1999, 2500}) => ret.isSome

\* The class of the first variable read that is not well-formed, if any.
FirstNotWellFormed ==
    LET bad == {i \in DOMAIN seen : seen[i] # "well-formed"}
    IN  IF bad = {} THEN "none"
        ELSE seen[CHOOSE i \in bad : \A j \in bad : i <= j]

\* C8: validateSecret does not return success for a Secret whose type is
\* none of REFERENCE, VALUE, UNKNOWN, and validateEnvironment does not return
\* success for an environment whose first variable that is not well-formed
\* has a type that is none of VALUE, SECRET, UNKNOWN.
C8_UnlistedTypeNotAccepted ==
    /\ (Done("validateSecret") /\ arg.type \notin SecretTypes) => ret # None
    /\ (pc = "done" /\ fn \in EnvironmentFns
        /\ FirstNotWellFormed = "unlisted type") => ret # None

\* C9: validateID reports the first rule violated in the order empty, too
\* long, reserved value, invalid character; in particular an ID that is too
\* long and holds an invalid character is reported as too long.
C9_IdRuleOrder ==
    (pc = "done" /\ fn \in IdFns) =>
        LET id == IdOf
            bad == \E i \in 1..Len(id) :
                      id[i] = 47 \/ id[i] = 92 \/ ControlCharacter(id[i])
            reserved == id = <<46>> \/ id = <<46, 46>>
        IN  /\ Len(id) = 0 =>
                 ret = Error(<<[lit |-> "ID must not be empty"]>>)
            /\ Len(id) > NAME_MAX =>
                 ret = Error(<<[lit |-> "ID must not be greater than "],
                               [str |-> <<50, 53, 53>>],
                               [lit |-> " characters"]>>)
            /\ reserved =>
                 ret = Error(<<[lit |-> "'"], [str |-> id],
                               [lit |-> "' is disallowed"]>>)
            /\ (Len(id) \in 1..NAME_MAX /\ ~reserved /\ bad) =>
                 ret = Error(<<[lit |-> "'"], [str |-> id],
                               [lit |-> "' contains invalid characters"]>>)
            /\ (Len(id) \in 1..NAME_MAX /\ ~reserved /\ ~bad) => ret = None

\* C9 witness: an ID longer than NAME_MAX that holds a '/' is reported as too
\* long.
C9_Witness ==
    /\ Done("validateID")
    /\ Len(arg) > NAME_MAX
    /\ \E i \in 1..Len(arg) : arg[i] = 47
    /\ ret.isSome /\ ret.message[1] = [lit |-> "ID must not be greater than "]

\* The error of validateEnvironment names the variable and ends with tail.
VariableError(name, tail) ==
    Error(<<[lit |-> "Environment variable '"], [str |-> name], [lit |-> tail]>>)

\* The rule a variable violates first, as the error expected for it.
FirstViolation(v) ==
    CASE v.type = "SECRET" /\ ~v.has_secret ->
           VariableError(v.name, "' of type 'SECRET' must have a secret set")
      [] v.type = "SECRET" /\ v.has_secret /\ v.has_value ->
           VariableError(v.name, "' of type 'SECRET' must not have a value set")
      [] v.type = "SECRET" /\ v.has_secret /\ ~v.has_value
           /\ validateSecret(v.secret).isSome ->
           Error(VariableError(v.name, "' specifies an invalid secret: ").message
                 \o validateSecret(v.secret).message)
      [] v.type = "SECRET" /\ v.has_secret /\ ~v.has_value
           /\ ~validateSecret(v.secret).isSome
           /\ (\E i \in 1..Len(v.secret.value.data) : v.secret.value.data[i] = 0) ->
           VariableError(v.name, "' specifies a secret containing null bytes, which is not allowed in the environment")
      [] v.type = "VALUE" /\ ~v.has_value ->
           VariableError(v.name, "' of type 'VALUE' must have a value set")
      [] v.type = "VALUE" /\ v.has_value /\ v.has_secret ->
           VariableError(v.name, "' of type 'VALUE' must not have a secret set")
      [] v.type = "UNKNOWN" ->
           Error(<<[lit |-> "Environment variable of type 'UNKNOWN' is not allowed"]>>)
      [] OTHER -> None

\* C10: validateEnvironment returns at the first variable that violates a
\* rule, with the error of the first rule that variable violates in the
\* order (SECRET: secret not set, value set, secret refused by
\* validateSecret, null byte; VALUE: value not set, secret set; UNKNOWN: not
\* allowed), and reads no further variable.
C10_EnvironmentFailFast ==
    (fn \in EnvironmentFns) =>
        /\ pc = "loop" =>
             ret = None /\ \A i \in DOMAIN seen : seen[i] # "ill-formed"
        /\ (pc = "done" /\ ret = None) =>
             idx = size /\ \A i \in DOMAIN seen : seen[i] # "ill-formed"
        /\ (pc = "done" /\ ret.isSome) =>
             /\ idx = Len(seen) /\ seen[idx] = "ill-formed"
             /\ \A i \in 1..(idx - 1) : seen[i] # "ill-formed"
             /\ ret = FirstViolation(arg)

\* C10 witness: after a well-formed variable, a SECRET variable with a value
\* and no secret (two rules violated): the secret-not-set error is returned,
\* and the variable after it is not read.
C10_Witness ==
    /\ Done("validateEnvironment")
    /\ size > idx
    /\ seen = <<"well-formed", "ill-formed">>
    /\ arg.type = "SECRET" /\ ~arg.has_secret /\ arg.has_value
    /\ ret = VariableError(arg.name, "' of type 'SECRET' must have a secret set")

=============================================================================
